---- MODULE Spec2Model ----
(***************************************************************************)
(* Model of the document ingestion pipeline (app/workers/tasks.py), the    *)
(* text services it drives (app/services/text_service.py) and the semantic *)
(* search endpoint (app/api/v1/endpoints/documentos.py), over a relational *)
(* store whose committed rows are kept apart from the rows a worker's      *)
(* session has added or flushed but not committed.                         *)
(***************************************************************************)
EXTENDS Integers, Sequences, FiniteSets, TLC

\* ------------------------------------------------------------------------
\* Bounds of the model
\* ------------------------------------------------------------------------

\* Longest extracted text, counted in whole chunk_size blocks (plus one char).
MaxBlocks == 2

\* Documents in the stores the search specification starts from.
MaxDocs == 3

\* Largest page number and page size a search request of the model asks for.
MaxPage == 2
MaxPageSize == 2

\* Longest short text handed to chunk_text on its own; the long ones are
\* this much longer than the default overlap.
MaxTextLen == 6

\* Longest text handed to clean_text on its own (every text over the
\* character classes up to this length).
MaxCleanLen == 4

\* Longest of the short strings the LLM answers as topic or summary, and of
\* the endings it puts after a run of letters one short of the length cap.
MaxShortLen == 2

\* Largest small chunk_size and overlap handed to chunk_text on its own.
MaxSize == 3
MaxOverlap == 2

\* Update and delete requests served concurrently, and documents in the
\* stores they start from.
MaxEditors == 2
MaxStored == 2

\* Largest number of results handed to the pagination on its own.
MaxTotal == 23

\* ------------------------------------------------------------------------
\* Program constants
\* ------------------------------------------------------------------------

NULL == "NULL"

\* @celery_app.task(bind=True, max_retries=3, default_retry_delay=60)
max_retries == 3

\* len(raw_text.strip()) < 10
MinTextLen == 10

\* text_service.chunk_text(cleaned_text, chunk_size=800, overlap=100)
chunk_size_arg == 800
overlap_arg == 100

\* TextService.__init__ defaults
default_chunk_size == 800
default_overlap == 100

\* SIMILARITY_THRESHOLD = 1.0, in thousandths of a cosine distance
SIMILARITY_THRESHOLD == 1000

\* LIMIT 50
SearchLimit == 50

\* similitud_map.get(doc_id, 999), in the same unit
MissingSimilitud == 999000

\* ------------------------------------------------------------------------
\* Text: a sequence of characters.  Each character of the model stands for
\* a class of characters the code treats alike.
\*   "a"    printable ASCII letter            "SP"  space
\*   "TAB"  \t      "NL"  \n      "CR"  \r    "NBSP"  U+00A0 (kept, whitespace)
\*   "FF"   \x0c (whitespace, not kept)       "CTL"  \x00, or any character
\*          outside the kept ranges that is not whitespace (e.g. U+2014)
\* ------------------------------------------------------------------------

Chars == {"a", "SP", "TAB", "NL", "CR", "NBSP", "FF", "CTL"}

\* The complement of the class in re.sub(r'[^\x20-\x7E...\n\r\t]', ' ', text)
KeptChar(c) == c \in {"a", "SP", "TAB", "NL", "CR", "NBSP"}

\* str.isspace(), which str.strip() and the regex class \s use
IsSpace(c) == c \in {"SP", "TAB", "NL", "CR", "NBSP", "FF"}

Rep(c, n) == [i \in 1..n |-> c]

Min(S) == CHOOSE x \in S : \A y \in S : x <= y
Max(S) == CHOOSE x \in S : \A y \in S : x >= y

\* The subsequence of t at the positions satisfying Keep, in order.
KeepAt(t, Keep(_)) ==
    LET tagged == [i \in 1..Len(t) |-> [c |-> t[i], keep |-> Keep(i)]]
        kept   == SelectSeq(tagged, LAMBDA e : e.keep)
    IN  [i \in 1..Len(kept) |-> kept[i].c]

\* str.strip()
Strip(t) ==
    LET solid == {i \in 1..Len(t) : ~IsSpace(t[i])}
    IN  IF solid = {} THEN <<>> ELSE SubSeq(t, Min(solid), Max(solid))

\* re.sub(r'[^...]', ' ', text): every character outside the kept ranges
\* becomes a space.
ReplaceUnkept(t) == [i \in 1..Len(t) |-> IF KeptChar(t[i]) THEN t[i] ELSE "SP"]

\* re.sub(r'[ \t]+', ' ', text): each maximal run of spaces and tabs becomes
\* one space.
CollapseBlanks(t) ==
    LET Blank(i) == t[i] \in {"SP", "TAB"}
        u == [i \in 1..Len(t) |-> IF Blank(i) THEN "SP" ELSE t[i]]
    IN  KeepAt(u, LAMBDA i : ~(Blank(i) /\ i > 1 /\ Blank(i - 1)))

\* re.sub(r'\n\s*\n+', '\n\n', text): inside a maximal run of whitespace,
\* everything from its first newline to its last newline becomes two
\* newlines (when the run holds at least two newlines).
CollapseNewlines(t) ==
    LET AllSpace(i, j) == \A k \in i..j : IsSpace(t[k])
        Inside(p) == /\ IsSpace(t[p])
                     /\ \E i \in 1..(p - 1) : t[i] = "NL" /\ AllSpace(i, p)
                     /\ \E k \in (p + 1)..Len(t) : t[k] = "NL" /\ AllSpace(p, k)
    IN  KeepAt(t, LAMBDA p : ~Inside(p))

\* lines = text.split('\n'); lines = [line.strip() for line in lines if
\* line.strip()]; text = '\n'.join(lines)
StripLines(t) ==
    LET Solid(i) == ~IsSpace(t[i])
        SameLine(i, j) == \A k \in i..j : t[k] # "NL"
        KeepChar(p) ==
            \/ Solid(p)
            \/ /\ t[p] # "NL"
               /\ \E i \in 1..(p - 1) : Solid(i) /\ SameLine(i, p)
               /\ \E k \in (p + 1)..Len(t) : Solid(k) /\ SameLine(p, k)
        \* the newline that ends a non-empty line which is not the last one
        KeepJoin(p) ==
            /\ t[p] = "NL"
            /\ \E i \in 1..(p - 1) : Solid(i) /\ SameLine(i, p - 1)
            /\ \E k \in (p + 1)..Len(t) : Solid(k)
    IN  KeepAt(t, LAMBDA p : KeepChar(p) \/ KeepJoin(p))

clean_textReplaceLate(text) ==
    IF text = <<>> THEN <<>>
    ELSE Strip(StripLines(CollapseNewlines(ReplaceUnkept(CollapseBlanks(text)))))

\* TextService.clean_text
clean_text(text) ==
    IF text = <<>> THEN <<>>
    ELSE Strip(StripLines(CollapseNewlines(CollapseBlanks(ReplaceUnkept(text)))))

\* ------------------------------------------------------------------------
\* TextService.chunk_text
\* ------------------------------------------------------------------------

\* `x or default`: None and 0 both give the default; an argument left out
\* (None) is written 0 in the model.
OrDefault(x, dflt) == IF x = 0 THEN dflt ELSE x

RECURSIVE ChunkLoop(_, _, _, _, _)

ChunkLoopNoOverlap(text, start, size, overlap, chunks) ==
    IF ~(start < Len(text)) THEN chunks
    ELSE LET end == IF start + size < Len(text) THEN start + size ELSE Len(text)
             now == Append(chunks, SubSeq(text, start + 1, end))
         IN  IF end >= Len(text) THEN now
             ELSE ChunkLoop(text, end, size, overlap, now)

\* The while loop of chunk_text, from start on.
ChunkLoop(text, start, size, overlap, chunks) ==
    IF ~(start < Len(text)) THEN chunks
    ELSE LET end == IF start + size < Len(text) THEN start + size ELSE Len(text)
             now == Append(chunks, SubSeq(text, start + 1, end))
         IN  IF end >= Len(text) THEN now
             ELSE ChunkLoop(text, end - overlap, size, overlap, now)

\* Returns the list of chunks, or "ValueError".
chunk_text(text, chunk_size, overlap) ==
    IF text = <<>> THEN <<>>
    ELSE LET size == OrDefault(chunk_size, default_chunk_size)
             ovl  == OrDefault(overlap, default_overlap)
         IN  IF size <= ovl THEN "ValueError"
             ELSE ChunkLoop(text, 0, size, ovl, <<>>)


\* ------------------------------------------------------------------------
\* State
\* ------------------------------------------------------------------------

VARIABLES
    pc,            \* position of the job: queued, a pipeline step, retry, success, failed
    retries,       \* self.request.retries
    started,       \* executions of process_document started so far
    delays,        \* countdowns passed to self.retry, in order
    tempFile,      \* os.path.exists(temp_path)
    ocrText,       \* what ocr_service.extract_text reads from the file
    content_type,  \* the content_type argument of the job
    cleanedLen,    \* len(cleaned_text)
    numChunks,     \* len(chunks)
    idx,           \* chunks embedded so far in this attempt
    metadata,      \* DocumentoMetadata of this attempt
    documento_id,  \* local documento_id (NoId while None)
    documento,     \* the Documento object of this attempt, flushed, not committed
    pending,       \* Fragmento objects added to the session, not flushed
    last,          \* how the latest finished attempt ended
    taskState,     \* the state of the task in the result backend
    progress,      \* meta['progress'] of the latest update_state
    stage,         \* meta['stage'] of the latest update_state
    object_name,   \* local object_name of this attempt (NoId before PASO 1)
    dbDocs,        \* committed rows of documentos, by id
    dbFrags,       \* committed rows of fragmentos
    dbAudit,       \* committed rows of audit_log
    sPc,           \* position of the search request: idle, vector, done
    request,       \* the SearchRequest being served
    rows,          \* result of the vector query
    ordered,       \* documentos_ordenados with their similitud
    response,      \* the SearchResponse
    call,          \* a call of a service function: its name and arguments
    ret,           \* the outcome of that call
    aiFn,          \* the AIService method that is calling the provider
    attempt,       \* its loop variable
    answers,       \* what the provider answered to each call so far
    slept,         \* the arguments of time.sleep so far, in order
    aiRet,         \* the outcome of the method
    objects,       \* the names of the objects in the bucket
    polled,        \* the latest TaskStatusResponse of get_task_status
    ePc,           \* position of each update or delete request
    eReq,          \* its path and body parameters
    eRow,          \* the Documento object its session has loaded
    ePending,      \* the AuditLog objects its session has flushed
    eResp          \* the HTTP status it answered with

jobVars == <<pc, retries, started, delays, tempFile, ocrText, content_type,
             cleanedLen,
             numChunks, idx, metadata, documento_id, documento, pending, last,
             taskState, progress, stage, object_name>>
dbVars == <<dbDocs, dbFrags, dbAudit>>
searchVars == <<sPc, request, rows, ordered, response>>
callVars == <<call, ret>>
aiVars == <<aiFn, attempt, answers, slept, aiRet>>
editVars == <<ePc, eReq, eRow, ePending, eResp>>
apiVars == <<objects, polled, editVars>>
vars == <<jobVars, dbVars, searchVars, callVars, aiVars, apiVars>>

\* documento_id: Optional[str] = None; also an absent date or filter
NoId == 0

\* Outcomes of a call: not finished, a returned value, a raised exception.
NoRet == [done |-> FALSE, error |-> NULL, value |-> <<>>]
Returned(v) == [done |-> TRUE, error |-> NULL, value |-> v]
Raised(e) == [done |-> TRUE, error |-> e, value |-> <<>>]

\* No service function is being examined.
NoCall == [fn |-> NULL]

CallInit ==
    /\ call = NoCall
    /\ ret = NoRet

\* No AIService method is running.
AiInit ==
    /\ aiFn = NULL
    /\ attempt = 0
    /\ answers = <<>>
    /\ slept = <<>>
    /\ aiRet = NoRet

\* ------------------------------------------------------------------------
\* Extracted texts of the model, as two runs of one character each
\* ------------------------------------------------------------------------

Run(c, n) == [c |-> c, n |-> n]

Expand(rle) == Rep(rle[1].c, rle[1].n) \o Rep(rle[2].c, rle[2].n)

LongLens == {chunk_size_arg * k + 1 : k \in 1..MaxBlocks}

RawTexts ==
    {<<Run(h[1], h[2]), Run("CTL", t)>> :
        h \in ({"a"} \X ({MinTextLen - 1, MinTextLen} \cup LongLens))
              \cup ({"CTL"} \X {MinTextLen - 1, MinTextLen})
              \cup ({"SP"} \X {MinTextLen}),
        t \in {0, 1}}

\* ------------------------------------------------------------------------
\* External collaborators
\* ------------------------------------------------------------------------

ALLOWED_CATEGORIES == {"Oficio", "Oficio Multiple", "Resolucion Directorial",
                       "Informe", "Solicitud", "Memorandum", "Acta", "Varios"}

\* Dates are day numbers; NoId stands for an absent date.
Dates == {1, 2}

\* What ai_service.extract_metadata followed by DocumentoMetadata(**dict)
\* can hand to the pipeline.
LLMMetadata ==
    {[tipo_documento |-> "Oficio", fecha_documento |-> 1],
     [tipo_documento |-> "Varios", fecha_documento |-> NoId]}

\* Embedding vectors: directions at 0, 60, 90 and 180 degrees.
Emb == 0..3

\* The provider's embedding of a chunk is a function of the chunk's text.
ProviderEmbedding(chunk) == Len(chunk) % 4

\* OCRService.extract_text: the content types it has a branch for; any
\* other one raises ValueError("Tipo de archivo no soportado: ...").
SupportedTypes == {"application/pdf", "image/jpeg", "image/jpg"}

\* The content_type a job is queued with: process_document takes it as a
\* plain string argument.  One type extract_text has a branch for and one
\* it has none for; "image/jpeg" goes through every step of the model as
\* "application/pdf" does.
ContentTypes == {"application/pdf", "image/png"}

\* The exception a failing step raises, as type name and str(exc): the
\* ValueError of the extraction step (unsupported type, too little text)
\* carries a message, the failure of an external call may carry none
\* (str(TimeoutError()) is empty).
RaisedAt(step) ==
    IF step = "extract"
    THEN [type |-> <<"ValueError">>, msg |-> <<"No", "se", "pudo">>]
    ELSE [type |-> <<"TimeoutError">>, msg |-> <<>>]

\* ------------------------------------------------------------------------
\* process_document
\* ------------------------------------------------------------------------

Running == {"upload", "extract", "clean", "chunk", "metadata", "create", "embed"}

NoRow == [id |-> NoId, status |-> "processing", error_message |-> <<>>,
          tipo_documento |-> NULL, fecha_documento |-> NoId,
          minio_object_name |-> NoId]

NoLast == [result |-> "none", step |-> "none", doc |-> NoId,
           usable |-> TRUE, committed |-> FALSE, removeOk |-> TRUE,
           tempAfter |-> TRUE]

\* The text steps of the pipeline applied to each text of the model:
\* raw_text.strip(), clean_text(raw_text) and chunk_text(cleaned_text,
\* chunk_size=800, overlap=100).
Processed ==
    [t \in RawTexts |->
        LET cleaned_text == clean_text(Expand(t))
        IN  [stripped |-> Len(Strip(Expand(t))),
             cleaned  |-> Len(cleaned_text),
             chunks   |-> chunk_text(cleaned_text, chunk_size_arg, overlap_arg)]]

Chunks == Processed[ocrText].chunks

\* progress: Optional[int] = None
NoProgress == -1

\* No update_state has been called.
NoStage == <<"none", 0>>

\* meta['progress'] of the update_state that opens a step; in the loop of
\* PASO 7 it is 60 + int((idx / len(chunks)) * 30), and PASO 8 reports 95.
StageProgress(step, i, n) ==
    CASE step = "upload" -> 10
      [] step = "extract" -> 20
      [] step = "clean" -> 30
      [] step = "chunk" -> 40
      [] step = "metadata" -> 50
      [] step = "create" -> 60
      [] step = "embed" -> 60 + (i * 30) \div n
      [] OTHER -> 95

\* meta['stage'] of the same call: a label per step, and in the loop
\* f'Generando embeddings ({idx + 1}/{len(chunks)})'.
StageLabel(step, i) == <<step, IF step = "embed" THEN i + 1 ELSE 0>>

\* retry_delay = 60 * (5 ** self.request.retries)
retry_delay(r) == 60 * (5 ^ r)

RetryExhaustedEarly(r) == r + 1 >= max_retries

\* Task.retry gives up when request.retries + 1 > max_retries.
RetryExhausted(r) == r + 1 > max_retries

ErrorMessageBare(exc) == exc.msg

\* f"{type(exc).__name__}: {str(exc)}"
ErrorMessage(exc) == exc.type \o <<":", " ">> \o exc.msg

\* What db.commit() in the except block writes next to the Documento row:
\* commit flushes every object still pending in the session.
HandlerFlush(frs) == frs

\* What the final db.commit() writes: the row, the fragments, the entry.
\* old_values=None or new_values=None of an AuditLog
NoValues == <<>>

\* log_create: AuditLog(documento_id, action='CREATE', old_values=None,
\* new_values=documento_info); the entry of document id has its own id.
AuditCreate(id) == [id |-> id, documento_id |-> id, action |-> "CREATE",
                    old_values |-> NoValues, new_values |-> <<"snapshot">>]

CommitAuditLater(id) == {}

CommitAudit(id) == {AuditCreate(id)}

TempAfterNoRemove(exists, removeOk) == exists

\* if os.path.exists(temp_path): os.remove(temp_path), inside try/except
TempAfterRemove(exists, removeOk) == exists /\ ~removeOk

JobInit ==
    /\ pc = "queued"
    /\ retries = 0
    /\ started = 0
    /\ delays = <<>>
    /\ tempFile = TRUE
    /\ ocrText \in RawTexts
    /\ content_type \in ContentTypes
    /\ cleanedLen = 0
    /\ numChunks = 0
    /\ idx = 0
    /\ metadata = [tipo_documento |-> NULL, fecha_documento |-> NoId]
    /\ documento_id = NoId
    /\ documento = NoRow
    /\ pending = {}
    /\ last = NoLast
    /\ taskState = "PENDING"
    /\ progress = NoProgress
    /\ stage = NoStage
    /\ object_name = NoId

\* A worker takes the job from the queue (first delivery or after the
\* countdown of a retry), marks it STARTED (task_track_started=True) and
\* enters the task body.
Begin ==
    /\ pc \in {"queued", "retry"}
    /\ pc' = "upload"
    /\ taskState' = "STARTED"
    /\ object_name' = NoId
    /\ started' = started + 1
    /\ cleanedLen' = 0
    /\ numChunks' = 0
    /\ idx' = 0
    /\ metadata' = [tipo_documento |-> NULL, fecha_documento |-> NoId]
    /\ documento_id' = NoId
    /\ documento' = NoRow
    /\ pending' = {}
    /\ UNCHANGED <<retries, delays, tempFile, ocrText, content_type, last,
                   progress, stage, dbVars, searchVars,
                   callVars, aiVars, apiVars>>

\* The first update_state calls and PASO 1: storage_service.upload_file
\* stores the file under a name made for this call (uuid4) and
\* os.path.getsize succeeds.
Upload ==
    /\ pc = "upload"
    /\ tempFile
    /\ taskState' = "PROGRESS"
    /\ progress' = StageProgress("upload", idx, numChunks)
    /\ stage' = StageLabel("upload", idx)
    /\ object_name' = started
    /\ objects' = objects \cup {started}
    /\ pc' = "extract"
    /\ UNCHANGED <<retries, started, delays, tempFile, ocrText, content_type, cleanedLen,
                   numChunks, idx, metadata, documento_id, documento, pending,
                   last, dbVars, searchVars,
                   callVars, aiVars, polled, editVars>>

\* PASO 2: extract_text returns and the text passes the minimum check.
Extract ==
    /\ pc = "extract"
    /\ content_type \in SupportedTypes
    /\ ~(Processed[ocrText].stripped < MinTextLen)
    /\ taskState' = "PROGRESS"
    /\ progress' = StageProgress("extract", idx, numChunks)
    /\ stage' = StageLabel("extract", idx)
    /\ pc' = "clean"
    /\ UNCHANGED <<retries, started, delays, tempFile, ocrText, content_type, cleanedLen,
                   numChunks, idx, metadata, documento_id, documento, pending,
                   last, object_name, dbVars, searchVars,
                   callVars, aiVars, apiVars>>

\* PASO 3
Clean ==
    /\ pc = "clean"
    /\ cleanedLen' = Processed[ocrText].cleaned
    /\ taskState' = "PROGRESS"
    /\ progress' = StageProgress("clean", idx, numChunks)
    /\ stage' = StageLabel("clean", idx)
    /\ pc' = "chunk"
    /\ UNCHANGED <<retries, started, delays, tempFile, ocrText, content_type,
                   numChunks, idx, metadata, documento_id, documento, pending,
                   last, object_name, dbVars, searchVars,
                   callVars, aiVars, apiVars>>

\* PASO 4
Chunk ==
    /\ pc = "chunk"
    /\ Chunks # "ValueError"
    /\ numChunks' = Len(Chunks)
    /\ taskState' = "PROGRESS"
    /\ progress' = StageProgress("chunk", idx, numChunks)
    /\ stage' = StageLabel("chunk", idx)
    /\ pc' = "metadata"
    /\ UNCHANGED <<retries, started, delays, tempFile, ocrText, content_type, cleanedLen,
                   idx, metadata, documento_id, documento, pending,
                   last, object_name, dbVars, searchVars,
                   callVars, aiVars, apiVars>>

\* PASO 5
Metadata ==
    /\ pc = "metadata"
    /\ \E m \in LLMMetadata : metadata' = m
    /\ taskState' = "PROGRESS"
    /\ progress' = StageProgress("metadata", idx, numChunks)
    /\ stage' = StageLabel("metadata", idx)
    /\ pc' = "create"
    /\ UNCHANGED <<retries, started, delays, tempFile, ocrText, content_type, cleanedLen,
                   numChunks, idx, documento_id, documento, pending,
                   last, object_name, dbVars, searchVars,
                   callVars, aiVars, apiVars>>

\* PASO 6: Documento(status='processing'); db.add; db.flush;
\* documento_id = str(documento.id).  The id is fresh for every attempt.
CreateDoc ==
    /\ pc = "create"
    /\ documento' = [id |-> started, status |-> "processing",
                     error_message |-> <<>>,
                     tipo_documento |-> metadata.tipo_documento,
                     fecha_documento |-> metadata.fecha_documento,
                     minio_object_name |-> object_name]
    /\ documento_id' = started
    /\ taskState' = "PROGRESS"
    /\ progress' = StageProgress("create", idx, numChunks)
    /\ stage' = StageLabel("create", idx)
    /\ pc' = "embed"
    /\ UNCHANGED <<retries, started, delays, tempFile, ocrText, content_type, cleanedLen,
                   numChunks, idx, metadata, pending,
                   last, object_name, dbVars, searchVars,
                   callVars, aiVars, apiVars>>

\* PASO 7, one round of the loop: generate_embedding(chunk); db.add(fragmento)
Embed ==
    /\ pc = "embed"
    /\ idx < numChunks
    /\ pending' = pending \cup
          {[documento_id |-> documento.id, posicion |-> idx,
            embedding |-> ProviderEmbedding(Chunks[idx + 1])]}
    /\ idx' = idx + 1
    /\ taskState' = "PROGRESS"
    /\ progress' = StageProgress("embed", idx, numChunks)
    /\ stage' = StageLabel("embed", idx)
    /\ UNCHANGED <<pc, retries, started, delays, tempFile, ocrText, content_type, cleanedLen,
                   numChunks, metadata, documento_id, documento,
                   last, object_name, dbVars, searchVars,
                   callVars, aiVars, apiVars>>

\* PASO 8 to the return: status = 'completed'; log_create; db.commit()
\* succeeds; the temporary file is removed; the id is returned.
Complete ==
    /\ pc = "embed"
    /\ idx = numChunks
    /\ \E removeOk \in (IF tempFile THEN BOOLEAN ELSE {TRUE}) :
          /\ dbDocs' = dbDocs @@
                (documento.id :> [documento EXCEPT !.status = "completed"])
          /\ dbFrags' = dbFrags \cup pending
          /\ dbAudit' = dbAudit \cup CommitAudit(documento.id)
          /\ tempFile' = TempAfterRemove(tempFile, removeOk)
          /\ last' = [result |-> "ok", step |-> "return", doc |-> documento_id,
                      usable |-> TRUE, committed |-> TRUE,
                      removeOk |-> removeOk,
                      tempAfter |-> TempAfterRemove(tempFile, removeOk)]
    /\ pc' = "success"
    /\ taskState' = "SUCCESS"
    /\ progress' = StageProgress("finalize", idx, numChunks)
    /\ stage' = StageLabel("finalize", idx)
    /\ pending' = {}
    /\ UNCHANGED <<retries, started, delays, ocrText, content_type, cleanedLen, numChunks,
                   idx, metadata, documento_id, documento,
                   object_name, searchVars,
                   callVars, aiVars, apiVars>>

\* The step at which an exception can be raised from position p.  From the
\* end of the loop the failing call is update_state (session intact) or the
\* flush of log_create or the commit (transaction rolled back).
FailSteps(p, i, n) ==
    IF p = "embed" /\ i = n THEN {"finalize", "commit"} ELSE {p}

\* The except block, the retry decision and the finally block, for an
\* exception raised at step.
Fail(step) ==
    /\ pc \in Running
    /\ step \in FailSteps(pc, idx, numChunks)
    /\ LET usable == step # "commit"
           reach  == documento_id # NoId /\ usable
       IN  \E commitOk \in (IF reach THEN BOOLEAN ELSE {FALSE}),
              removeOk \in (IF tempFile THEN BOOLEAN ELSE {TRUE}) :
              /\ dbDocs' = IF commitOk
                           THEN dbDocs @@ (documento.id :>
                                  [documento EXCEPT
                                     !.status = "error",
                                     !.error_message =
                                        ErrorMessage(RaisedAt(step))])
                           ELSE dbDocs
              /\ dbFrags' = IF commitOk THEN dbFrags \cup HandlerFlush(pending)
                            ELSE dbFrags
              /\ tempFile' = TempAfterRemove(tempFile, removeOk)
              /\ last' = [result |-> "fail", step |-> step,
                          doc |-> documento_id, usable |-> usable,
                          committed |-> commitOk, removeOk |-> removeOk,
                          tempAfter |-> TempAfterRemove(tempFile, removeOk)]
    /\ IF step = "finalize"
       THEN UNCHANGED <<progress, stage>>
       ELSE /\ progress' = StageProgress(step, idx, numChunks)
            /\ stage' = StageLabel(step, idx)
    /\ IF RetryExhausted(retries)
       THEN /\ pc' = "failed"
            /\ taskState' = "FAILURE"
            /\ UNCHANGED <<retries, delays>>
       ELSE /\ pc' = "retry"
            /\ taskState' = "RETRY"
            /\ retries' = retries + 1
            /\ delays' = Append(delays, retry_delay(retries))
    /\ pending' = {}
    /\ UNCHANGED <<started, ocrText, content_type, cleanedLen, numChunks, idx, metadata,
                   documento_id, documento, dbAudit,
                   object_name, searchVars,
                   callVars, aiVars, apiVars>>

Raise == \E step \in Running \cup {"finalize", "commit"} : Fail(step)


\* ------------------------------------------------------------------------
\* search_documentos
\* ------------------------------------------------------------------------

\* f.embedding <=> query_vector: cosine distance in thousandths between the
\* directions 0, 60, 90 and 180 degrees (0 = identical, 2000 = opposite).
CosineDistance(e, q) ==
    LET lo == IF e <= q THEN e ELSE q
        hi == IF e <= q THEN q ELSE e
    IN  CASE lo = hi -> 0
          [] lo = 0 /\ hi = 1 -> 500
          [] lo = 0 /\ hi = 2 -> 1000
          [] lo = 0 /\ hi = 3 -> 2000
          [] lo = 1 /\ hi = 2 -> 134
          [] lo = 1 /\ hi = 3 -> 1500
          [] lo = 2 /\ hi = 3 -> 1000

Queries == {0, 1}

SearchRequests ==
    [query : Queries, tipo_documento : {NULL, "Oficio"},
     fecha_desde : {NoId, 2}, fecha_hasta : {NoId, 1},
     page : 1..MaxPage, page_size : 1..MaxPageSize]

\* The requests served while a job is running: no filters, first page.
JobRequests ==
    {r \in SearchRequests : /\ r.tipo_documento = NULL
                            /\ r.fecha_desde = NoId /\ r.fecha_hasta = NoId
                            /\ r.page = 1 /\ r.page_size = MaxPageSize}

NoRequest == [query |-> 0, tipo_documento |-> NULL, fecha_desde |-> NoId,
              fecha_hasta |-> NoId, page |-> 1, page_size |-> 1]

NoResponse == [code |-> 0, results |-> <<>>, total |-> 0, page |-> 0,
               total_pages |-> 0]

\* An order in which the store may hand back rows that the query does not
\* order: a ranking of the document ids.
TieOrders(ids) ==
    {t \in [ids -> 1..Cardinality(ids)] :
        \A a, b \in ids : a # b => t[a] # t[b]}

\* The vector query orders by similitud only; rows of equal similitud are
\* taken in the order of their ids (nothing after the query depends on the
\* order of its rows, only LIMIT on which rows there are).
IdOrder(ids) == [d \in ids |-> d]

\* The elements of S (records with documento_id and similitud) as a
\* sequence ascending by similitud, equal ones in the order tie.
SortedBy(S, tie) ==
    LET Before(a, b) ==
            \/ a.similitud < b.similitud
            \/ /\ a.similitud = b.similitud
               /\ tie[a.documento_id] < tie[b.documento_id]
        Rank(a) == 1 + Cardinality({b \in S : Before(b, a)})
    IN  [i \in 1..Cardinality(S) |-> CHOOSE a \in S : Rank(a) = i]

SearchVisibleAny(d) == TRUE

\* WHERE d.status = 'completed', and Documento.status == 'completed'
SearchVisible(d) == d.status = "completed"

\* SELECT DISTINCT f.documento_id, (f.embedding <=> q) AS similitud
\* FROM fragmentos f INNER JOIN documentos d ON f.documento_id = d.id
\* WHERE d.status = 'completed'
VectorPairs(q) ==
    {[documento_id |-> f.documento_id,
      similitud |-> CosineDistance(f.embedding, q)] :
        f \in {g \in dbFrags : /\ g.documento_id \in DOMAIN dbDocs
                               /\ SearchVisible(dbDocs[g.documento_id])}}

\* ORDER BY similitud ASC LIMIT 50
Limit(sq) == IF Len(sq) <= SearchLimit THEN sq ELSE SubSeq(sq, 1, SearchLimit)

\* similitud_map = {row.documento_id: row.similitud for row in results}:
\* a later row of the same document replaces the earlier one.
similitud_map(rs) ==
    [d \in {rs[i].documento_id : i \in DOMAIN rs} |->
        rs[Max({i \in DOMAIN rs : rs[i].documento_id = d})].similitud]

\* similitud_map.get(doc_id, 999) <= SIMILARITY_THRESHOLD
WithinThreshold(sim) == sim <= SIMILARITY_THRESHOLD

\* The filters of step 5; a filter that is None (or empty) is not applied,
\* and a comparison with a NULL date is not true.
MatchesFilters(d, req) ==
    /\ req.tipo_documento # NULL => d.tipo_documento = req.tipo_documento
    /\ req.fecha_desde # NoId =>
          d.fecha_documento # NoId /\ d.fecha_documento >= req.fecha_desde
    /\ req.fecha_hasta # NoId =>
          d.fecha_documento # NoId /\ d.fecha_documento <= req.fecha_hasta

total_pagesFloor(total, page_size) == total \div page_size

\* math.ceil(total / request.page_size)
total_pages(total, page_size) == (total + page_size - 1) \div page_size

\* documentos_ordenados[start_idx:end_idx]
Slice(sq, start, end) ==
    LET hi == IF end < Len(sq) THEN end ELSE Len(sq)
    IN  IF start >= hi THEN <<>> ELSE SubSeq(sq, start + 1, hi)

EmptyResponse(req) == [code |-> 200, results |-> <<>>, total |-> 0,
                       page |-> req.page, total_pages |-> 0]

SearchInit ==
    /\ sPc = "idle"
    /\ request = NoRequest
    /\ rows = <<>>
    /\ ordered = <<>>
    /\ response = NoResponse

\* Steps 1 and 2: the query embedding and the vector query, which reads the
\* committed rows of that moment.
SearchVector(req) ==
    /\ sPc = "idle"
    /\ request' = req
    /\ rows' = Limit(SortedBy(VectorPairs(req.query), IdOrder(DOMAIN dbDocs)))
    /\ ordered' = <<>>
    /\ response' = NoResponse
    /\ sPc' = "vector"
    /\ UNCHANGED <<jobVars, dbVars, callVars, aiVars, apiVars>>

\* generate_query_embedding or the vector query raises: HTTP 500.
SearchError(req) ==
    /\ sPc = "idle"
    /\ request' = req
    /\ rows' = <<>>
    /\ ordered' = <<>>
    /\ response' = [NoResponse EXCEPT !.code = 500]
    /\ sPc' = "done"
    /\ UNCHANGED <<jobVars, dbVars, callVars, aiVars, apiVars>>

\* Steps 3 to 6: threshold, the second query (which reads the committed rows
\* of its own moment), filters, sort, pagination.
SearchFetch ==
    /\ sPc = "vector"
    /\ LET smap == similitud_map(rows)
           documento_ids_filtrados ==
               {d \in DOMAIN smap : WithinThreshold(smap[d])}
           documentos ==
               {d \in documento_ids_filtrados :
                   /\ d \in DOMAIN dbDocs
                   /\ SearchVisible(dbDocs[d])
                   /\ MatchesFilters(dbDocs[d], request)}
           scored == {[documento_id |-> d, similitud |-> smap[d],
                       documento |-> dbDocs[d]] : d \in documentos}
       IN  IF documento_ids_filtrados = {}
           THEN /\ ordered' = <<>>
                /\ response' = EmptyResponse(request)
           ELSE \E documentos_ordenados \in
                     {SortedBy(scored, tie) : tie \in TieOrders(documentos)} :
                  LET total == Len(documentos_ordenados)
                      start_idx == (request.page - 1) * request.page_size
                      end_idx == start_idx + request.page_size
                      pagina == Slice(documentos_ordenados, start_idx, end_idx)
                  IN  /\ ordered' = documentos_ordenados
                      /\ response' =
                           [code |-> 200,
                            results |->
                               [i \in 1..Len(pagina) |->
                                   [documento |-> pagina[i].documento,
                                    relevance_score |-> pagina[i].similitud]],
                            total |-> total,
                            page |-> request.page,
                            total_pages |->
                               total_pages(total, request.page_size)]
    /\ sPc' = "done"
    /\ UNCHANGED <<request, rows, jobVars, dbVars, callVars, aiVars, apiVars>>

\* The response has been sent; the handler is ready for the next request.
SearchReturn ==
    /\ sPc = "done"
    /\ sPc' = "idle"
    /\ request' = NoRequest
    /\ rows' = <<>>
    /\ ordered' = <<>>
    /\ response' = NoResponse
    /\ UNCHANGED <<jobVars, dbVars, callVars, aiVars, apiVars>>

\* ------------------------------------------------------------------------
\* get_task_status
\* ------------------------------------------------------------------------

\* No status has been asked for.
NoPoll == [status |-> "none", progress |-> NoProgress]

\* task_result.state.lower(), on the state names of the result backend
Lower ==
    [s \in {"PENDING", "STARTED", "PROGRESS", "RETRY", "SUCCESS", "FAILURE"} |->
        CASE s = "PENDING" -> "pending"
          [] s = "STARTED" -> "started"
          [] s = "PROGRESS" -> "progress"
          [] s = "RETRY" -> "retry"
          [] s = "SUCCESS" -> "success"
          [] s = "FAILURE" -> "failure"]

\* The TaskStatusResponse built for task_result.state and, in PROGRESS,
\* info.get('progress', 0); every other state takes the final else branch.
get_task_status(state, info) ==
    CASE state = "PENDING" -> [status |-> "pending", progress |-> 0]
      [] state = "PROGRESS" -> [status |-> "processing", progress |-> info]
      [] state = "SUCCESS" -> [status |-> "completed", progress |-> 100]
      [] state = "FAILURE" -> [status |-> "error", progress |-> NoProgress]
      [] OTHER -> [status |-> Lower[state], progress |-> NoProgress]

\* GET /task/{task_id} is answered from the result backend as it is now.
Poll ==
    /\ polled' = get_task_status(taskState, progress)
    /\ UNCHANGED <<jobVars, dbVars, searchVars, callVars, aiVars, objects,
                   editVars>>

\* ------------------------------------------------------------------------
\* update_documento and delete_documento
\* ------------------------------------------------------------------------

\* The requests served concurrently, each in a session of its own.
Requesters == 1..MaxEditors

\* A field of DocumentoUpdate the body leaves out (exclude_unset=True).
UnsetText == "UNSET"
UnsetDate == -1

NoData == [tipo_documento |-> UnsetText, fecha_documento |-> UnsetDate]

\* Bodies of PUT requests: one field set, the other field set, both set to
\* null.
UpdateData ==
    {[tipo_documento |-> "Informe", fecha_documento |-> UnsetDate],
     [tipo_documento |-> UnsetText, fecha_documento |-> 2],
     [tipo_documento |-> NULL, fecha_documento |-> NoId]}

NoEdit == [op |-> "none", documento_id |-> NoId, data |-> NoData,
           confirm |-> FALSE]

UpdateRequests ==
    [op : {"update"}, documento_id : 1..MaxStored, data : UpdateData,
     confirm : {FALSE}]

DeleteRequests ==
    [op : {"delete"}, documento_id : 1..MaxStored, data : {NoData},
     confirm : BOOLEAN]

\* for field, value in update_dict.items(): setattr(documento, field, value)
ApplyUpdate(row, data) ==
    [row EXCEPT
       !.tipo_documento = IF data.tipo_documento = UnsetText
                          THEN @ ELSE data.tipo_documento,
       !.fecha_documento = IF data.fecha_documento = UnsetDate
                           THEN @ ELSE data.fecha_documento]

\* The UPDATE statement of the flush sets the columns whose attribute
\* differs from the value the session loaded, on the row as it is when the
\* statement runs.
FlushUpdate(current, loaded, data) ==
    LET changed == ApplyUpdate(loaded, data)
    IN  [current EXCEPT
           !.tipo_documento = IF changed.tipo_documento = loaded.tipo_documento
                              THEN @ ELSE changed.tipo_documento,
           !.fecha_documento = IF changed.fecha_documento = loaded.fecha_documento
                               THEN @ ELSE changed.fecha_documento]

\* old_values and new_values of update_documento: the five metadata fields
ValuesOf(row) == <<row.tipo_documento, row.fecha_documento>>

\* documento_info of delete_documento
DeleteInfo(row) == <<row.tipo_documento, row.fecha_documento, row.status,
                     row.minio_object_name>>

\* AuditLog.id of the entry a request writes (default=uuid.uuid4)
AuditId(r) == 100 + r

AuditUpdateNoOld(r, id, old_values, new_values) ==
    [id |-> AuditId(r), documento_id |-> id, action |-> "UPDATE",
     old_values |-> NoValues, new_values |-> new_values]

\* log_update
AuditUpdate(r, id, old_values, new_values) ==
    [id |-> AuditId(r), documento_id |-> id, action |-> "UPDATE",
     old_values |-> old_values, new_values |-> new_values]

\* log_delete
AuditDelete(r, id, old_values) ==
    [id |-> AuditId(r), documento_id |-> id, action |-> "DELETE",
     old_values |-> old_values, new_values |-> NoValues]

\* Request r has run a statement that locks the row of document d and has
\* not ended its transaction.
Holds(r, d) == ePc[r] = "flushed" /\ eReq[r].documento_id = d

ApiInit ==
    /\ polled = NoPoll
    /\ ePc = [r \in Requesters |-> "idle"]
    /\ eReq = [r \in Requesters |-> NoEdit]
    /\ eRow = [r \in Requesters |-> NoRow]
    /\ ePending = [r \in Requesters |-> {}]
    /\ eResp = [r \in Requesters |-> 0]

UpdateLoadAnyStatus ==
    \E r \in Requesters, req \in UpdateRequests :
        /\ ePc[r] = "idle"
        /\ req.op = "update"
        /\ eReq' = [eReq EXCEPT ![r] = req]
        /\ IF req.documento_id \in DOMAIN dbDocs
           THEN /\ eRow' = [eRow EXCEPT ![r] = dbDocs[req.documento_id]]
                /\ ePc' = [ePc EXCEPT ![r] = "loaded"]
                /\ UNCHANGED eResp
           ELSE /\ eResp' = [eResp EXCEPT ![r] = 404]
                /\ ePc' = [ePc EXCEPT ![r] = "done"]
                /\ UNCHANGED eRow
        /\ UNCHANGED <<jobVars, dbVars, searchVars, callVars, aiVars, objects,
                       polled, ePending>>

\* update_documento up to new_values: the query for the document with
\* status 'completed' (404 when there is none), old_values, the setattr
\* loop.
UpdateLoad ==
    \E r \in Requesters, req \in UpdateRequests :
        /\ ePc[r] = "idle"
        /\ req.op = "update"
        /\ eReq' = [eReq EXCEPT ![r] = req]
        /\ IF req.documento_id \in DOMAIN dbDocs
              /\ dbDocs[req.documento_id].status = "completed"
           THEN /\ eRow' = [eRow EXCEPT ![r] = dbDocs[req.documento_id]]
                /\ ePc' = [ePc EXCEPT ![r] = "loaded"]
                /\ UNCHANGED eResp
           ELSE /\ eResp' = [eResp EXCEPT ![r] = 404]
                /\ ePc' = [ePc EXCEPT ![r] = "done"]
                /\ UNCHANGED eRow
        /\ UNCHANGED <<jobVars, dbVars, searchVars, callVars, aiVars, objects,
                       polled, ePending>>

\* log_update: db.add(audit_entry); db.flush().  The flush runs the UPDATE
\* of the row, which waits while another transaction holds the row and
\* raises StaleDataError when the row is gone, and the INSERT of the entry.
UpdateFlush ==
    \E r \in Requesters :
        /\ ePc[r] = "loaded"
        /\ LET d == eReq[r].documento_id
           IN  /\ \A o \in Requesters \ {r} : ~(Holds(o, d) /\ eReq[o].op = "update")
               /\ IF d \in DOMAIN dbDocs
                  THEN /\ ePending' = [ePending EXCEPT ![r] =
                              {AuditUpdate(r, d, ValuesOf(eRow[r]),
                                           ValuesOf(ApplyUpdate(eRow[r], eReq[r].data)))}]
                       /\ ePc' = [ePc EXCEPT ![r] = "flushed"]
                       /\ UNCHANGED eResp
                  ELSE /\ eResp' = [eResp EXCEPT ![r] = 500]
                       /\ ePc' = [ePc EXCEPT ![r] = "done"]
                       /\ UNCHANGED ePending
        /\ UNCHANGED <<jobVars, dbVars, searchVars, callVars, aiVars, objects,
                       polled, eReq, eRow>>

\* db.commit() of update_documento succeeds: the row as the UPDATE left it
\* and the entry become visible together.
UpdateCommit ==
    \E r \in Requesters :
        /\ ePc[r] = "flushed"
        /\ eReq[r].op = "update"
        /\ LET d == eReq[r].documento_id
           IN  /\ dbDocs' = [dbDocs EXCEPT ![d] =
                                 FlushUpdate(dbDocs[d], eRow[r], eReq[r].data)]
               /\ dbAudit' = dbAudit \cup ePending[r]
        /\ ePending' = [ePending EXCEPT ![r] = {}]
        /\ eResp' = [eResp EXCEPT ![r] = 200]
        /\ ePc' = [ePc EXCEPT ![r] = "done"]
        /\ UNCHANGED <<jobVars, dbFrags, searchVars, callVars, aiVars, objects,
                       polled, eReq, eRow>>

UpdateFailKeepsEntry ==
    \E r \in Requesters :
        /\ ePc[r] \in {"loaded", "flushed"}
        /\ eReq[r].op = "update"
        /\ dbAudit' = dbAudit \cup ePending[r]
        /\ ePending' = [ePending EXCEPT ![r] = {}]
        /\ eResp' = [eResp EXCEPT ![r] = 500]
        /\ ePc' = [ePc EXCEPT ![r] = "done"]
        /\ UNCHANGED <<jobVars, dbDocs, dbFrags, searchVars, callVars, aiVars,
                       objects, polled, eReq, eRow>>

\* The flush of log_update or db.commit() raises: db.rollback(), HTTP 500.
UpdateFail ==
    \E r \in Requesters :
        /\ ePc[r] \in {"loaded", "flushed"}
        /\ eReq[r].op = "update"
        /\ ePending' = [ePending EXCEPT ![r] = {}]
        /\ eResp' = [eResp EXCEPT ![r] = 500]
        /\ ePc' = [ePc EXCEPT ![r] = "done"]
        /\ UNCHANGED <<jobVars, dbVars, searchVars, callVars, aiVars, objects,
                       polled, eReq, eRow>>

\* delete_documento up to db.delete: 400 without confirm, the query for the
\* document in any status (404 when there is none), log_delete with its
\* flush, remove_object, whose failure is logged and swallowed.
DeleteLoad ==
    \E r \in Requesters, req \in DeleteRequests :
        /\ ePc[r] = "idle"
        /\ req.op = "delete"
        /\ eReq' = [eReq EXCEPT ![r] = req]
        /\ IF ~req.confirm
           THEN /\ eResp' = [eResp EXCEPT ![r] = 400]
                /\ ePc' = [ePc EXCEPT ![r] = "done"]
                /\ UNCHANGED <<eRow, ePending, objects>>
           ELSE IF req.documento_id \notin DOMAIN dbDocs
           THEN /\ eResp' = [eResp EXCEPT ![r] = 404]
                /\ ePc' = [ePc EXCEPT ![r] = "done"]
                /\ UNCHANGED <<eRow, ePending, objects>>
           ELSE LET documento_row == dbDocs[req.documento_id]
                IN  /\ eRow' = [eRow EXCEPT ![r] = documento_row]
                    /\ ePending' = [ePending EXCEPT ![r] =
                           {AuditDelete(r, documento_row.id, DeleteInfo(documento_row))}]
                    /\ \E removed \in BOOLEAN :
                          objects' = IF removed
                                     THEN objects \ {documento_row.minio_object_name}
                                     ELSE objects
                    /\ ePc' = [ePc EXCEPT ![r] = "flushed"]
                    /\ UNCHANGED eResp
        /\ UNCHANGED <<jobVars, dbVars, searchVars, callVars, aiVars, polled>>

CascadeNone(rs, d) == rs

\* What ON DELETE CASCADE leaves of a set of rows that reference documents.
Cascade(rs, d) == {x \in rs : x.documento_id # d}

\* db.delete(documento); db.commit() succeeds.  The DELETE waits for every
\* other transaction that holds the row; the fragments and the audit
\* entries of the document, the one of this transaction among them, go with
\* the row.
DeleteCommit ==
    \E r \in Requesters :
        /\ ePc[r] = "flushed"
        /\ eReq[r].op = "delete"
        /\ LET d == eReq[r].documento_id
           IN  /\ \A o \in Requesters \ {r} : ~Holds(o, d)
               /\ dbDocs' = [x \in DOMAIN dbDocs \ {d} |-> dbDocs[x]]
               /\ dbFrags' = Cascade(dbFrags, d)
               /\ dbAudit' = Cascade(dbAudit \cup ePending[r], d)
        /\ ePending' = [ePending EXCEPT ![r] = {}]
        /\ eResp' = [eResp EXCEPT ![r] = 200]
        /\ ePc' = [ePc EXCEPT ![r] = "done"]
        /\ UNCHANGED <<jobVars, searchVars, callVars, aiVars, objects, polled,
                       eReq, eRow>>

\* db.delete or db.commit() raises (a deadlock with another delete of the
\* same document among the causes): db.rollback(), HTTP 500.
DeleteFail ==
    \E r \in Requesters :
        /\ ePc[r] = "flushed"
        /\ eReq[r].op = "delete"
        /\ ePending' = [ePending EXCEPT ![r] = {}]
        /\ eResp' = [eResp EXCEPT ![r] = 500]
        /\ ePc' = [ePc EXCEPT ![r] = "done"]
        /\ UNCHANGED <<jobVars, dbVars, searchVars, callVars, aiVars, objects,
                       polled, eReq, eRow>>

\* ------------------------------------------------------------------------
\* Specifications
\* ------------------------------------------------------------------------

\* One ingestion job, from the queue to its terminal state, with search
\* requests served concurrently.
Init ==
    /\ JobInit
    /\ dbDocs = <<>>
    /\ dbFrags = {}
    /\ dbAudit = {}
    /\ objects = {}
    /\ SearchInit
    /\ CallInit
    /\ AiInit
    /\ ApiInit

SearchJob == \E req \in JobRequests : SearchVector(req)

SearchJobError == \E req \in JobRequests : SearchError(req)

Next ==
    \/ Begin
    \/ Upload
    \/ Extract
    \/ Clean
    \/ Chunk
    \/ Metadata
    \/ CreateDoc
    \/ Embed
    \/ Complete
    \/ Raise
    \/ SearchJob
    \/ SearchJobError
    \/ SearchFetch
    \/ SearchReturn

Spec == Init /\ [][Next]_vars

\* One ingestion job and a caller that polls its status.
NextJob ==
    \/ Begin
    \/ Upload
    \/ Extract
    \/ Clean
    \/ Chunk
    \/ Metadata
    \/ CreateDoc
    \/ Embed
    \/ Complete
    \/ Raise
    \/ Poll

SpecJob == Init /\ [][NextJob]_vars

\* Search over a store left by earlier jobs: each document is one of a few
\* shapes, completed with its fragments and CREATE entry, or in error.
StoredShapes ==
    {[status |-> "completed", meta |-> m, embs |-> e] :
        m \in {[tipo_documento |-> "Oficio", fecha_documento |-> 1],
               [tipo_documento |-> "Informe", fecha_documento |-> 2]},
        e \in {<<0>>, <<2>>, <<0, 3>>, <<1, 2>>}}
    \cup {[status |-> "completed",
           meta |-> [tipo_documento |-> "Varios", fecha_documento |-> NoId],
           embs |-> <<1>>],
          [status |-> "error",
           meta |-> [tipo_documento |-> "Oficio", fecha_documento |-> 1],
           embs |-> <<0>>]}

StoredDoc(id, shape) ==
    [id |-> id, status |-> shape.status,
     error_message |-> IF shape.status = "error"
                       THEN ErrorMessage([type |-> <<"Exception">>, msg |-> <<>>])
                       ELSE <<>>,
     tipo_documento |-> shape.meta.tipo_documento,
     fecha_documento |-> shape.meta.fecha_documento,
     minio_object_name |-> id]

InitSearch ==
    /\ JobInit
    /\ ocrText = <<Run("a", MinTextLen), Run("CTL", 0)>>
    /\ content_type = "application/pdf"
    /\ \E n \in 0..MaxDocs : \E shapes \in [1..n -> StoredShapes] :
          /\ dbDocs = [d \in 1..n |-> StoredDoc(d, shapes[d])]
          /\ dbFrags = UNION {{[documento_id |-> d, posicion |-> i - 1,
                                embedding |-> shapes[d].embs[i]] :
                                  i \in DOMAIN shapes[d].embs} : d \in 1..n}
          /\ dbAudit = UNION {IF shapes[d].status = "completed"
                              THEN CommitAudit(d) ELSE {} : d \in 1..n}
          /\ objects = 1..n
    /\ SearchInit
    /\ CallInit
    /\ AiInit
    /\ ApiInit

SearchAny == \E req \in SearchRequests : SearchVector(req)

SearchAnyError == \E req \in SearchRequests : SearchError(req)

NextSearch ==
    \/ SearchAny
    \/ SearchAnyError
    \/ SearchFetch
    \/ SearchReturn

SpecSearch == InitSearch /\ [][NextSearch]_vars

\* Update and delete requests over a store left by earlier jobs.
EditShapes ==
    {[status |-> "completed",
      meta |-> [tipo_documento |-> "Oficio", fecha_documento |-> 1],
      embs |-> <<0, 3>>],
     [status |-> "error",
      meta |-> [tipo_documento |-> "Oficio", fecha_documento |-> 1],
      embs |-> <<0>>]}

InitEdit ==
    /\ JobInit
    /\ ocrText = <<Run("a", MinTextLen), Run("CTL", 0)>>
    /\ content_type = "application/pdf"
    /\ \E n \in 1..MaxStored : \E shapes \in [1..n -> EditShapes] :
          /\ dbDocs = [d \in 1..n |-> StoredDoc(d, shapes[d])]
          /\ dbFrags = UNION {{[documento_id |-> d, posicion |-> i - 1,
                                embedding |-> shapes[d].embs[i]] :
                                  i \in DOMAIN shapes[d].embs} : d \in 1..n}
          /\ dbAudit = UNION {IF shapes[d].status = "completed"
                              THEN CommitAudit(d) ELSE {} : d \in 1..n}
          /\ objects = 1..n
    /\ SearchInit
    /\ CallInit
    /\ AiInit
    /\ ApiInit

NextEdit ==
    \/ UpdateLoad
    \/ UpdateFlush
    \/ UpdateCommit
    \/ UpdateFail
    \/ DeleteLoad
    \/ DeleteCommit
    \/ DeleteFail

SpecEdit == InitEdit /\ [][NextEdit]_vars


\* ------------------------------------------------------------------------
\* Service functions called on their own
\* ------------------------------------------------------------------------

\* The pipeline and the search at rest, with an empty store.
RestInit ==
    /\ JobInit
    /\ ocrText = <<Run("a", MinTextLen), Run("CTL", 0)>>
    /\ content_type = "application/pdf"
    /\ dbDocs = <<>>
    /\ dbFrags = {}
    /\ dbAudit = {}
    /\ objects = {}
    /\ SearchInit
    /\ ApiInit

\* Texts for chunk_text, which never looks at the characters: a text of n
\* pairwise different characters (character codes 1..n) and a text of n
\* equal ones.
Ramp(n) == [i \in 1..n |-> i]
Flat(n) == [i \in 1..n |-> 1]

ChunkTexts(lens) == {Ramp(n) : n \in lens} \cup {Flat(n) : n \in lens}

\* chunk_size and overlap as the caller passes them; 0 is a value a caller
\* can pass and is also what an argument left out (None) is written as.
\* The sizes and overlaps are small ones and ones around the default
\* overlap; the texts are short ones, and for the sizes around the default
\* overlap also texts a few characters longer than it.
SmallSizes == 0..MaxSize
LargeSizes == {default_overlap + k : k \in 0..2}
ChunkOverlaps == 0..MaxOverlap \cup {default_overlap - 1, default_overlap}
ShortLens == 0..MaxTextLen
LongerLens == {default_overlap + k : k \in 1..MaxTextLen}

ChunkCalls ==
    [fn : {"chunk_text"}, text : ChunkTexts(ShortLens),
     chunk_size : SmallSizes \cup LargeSizes, overlap : ChunkOverlaps]
    \cup
    [fn : {"chunk_text"}, text : ChunkTexts(LongerLens),
     chunk_size : {0} \cup LargeSizes, overlap : ChunkOverlaps]

InitChunk ==
    /\ RestInit
    /\ AiInit
    /\ call \in ChunkCalls
    /\ ret = NoRet

\* text_service.chunk_text(text, chunk_size, overlap) runs to its end.
CallChunk ==
    /\ call.fn = "chunk_text"
    /\ ~ret.done
    /\ LET chunks == chunk_text(call.text, call.chunk_size, call.overlap)
       IN  ret' = IF chunks = "ValueError" THEN Raised("ValueError")
                  ELSE Returned(chunks)
    /\ UNCHANGED <<call, jobVars, dbVars, searchVars, aiVars, apiVars>>

NextChunk == CallChunk

SpecChunk == InitChunk /\ [][NextChunk]_vars

\* SearchRequest.page_size: Field(10, ge=1, le=50)
max_page_size == 50

\* Step 6 of search_documentos on a sorted list: total, total_pages and the
\* slice documentos_ordenados[start_idx:end_idx].
paginate(documentos_ordenados, page, page_size) ==
    LET total == Len(documentos_ordenados)
        start_idx == (page - 1) * page_size
        end_idx == start_idx + page_size
    IN  [results |-> Slice(documentos_ordenados, start_idx, end_idx),
         total |-> total,
         page |-> page,
         total_pages |-> total_pages(total, page_size)]

\* Sorted lists of every length up to MaxTotal (the item at rank k is
\* k + 1), every page size the schema admits, and pages up to some beyond
\* the last one.
PageCalls ==
    [fn : {"paginate"}, total : 0..MaxTotal, page : 1..(MaxTotal + 2),
     page_size : 1..max_page_size]

InitPage ==
    /\ RestInit
    /\ AiInit
    /\ call \in PageCalls
    /\ ret = NoRet

CallPaginate ==
    /\ call.fn = "paginate"
    /\ ~ret.done
    /\ ret' = Returned(paginate(Ramp(call.total), call.page, call.page_size))
    /\ UNCHANGED <<call, jobVars, dbVars, searchVars, aiVars, apiVars>>

NextPage == CallPaginate

SpecPage == InitPage /\ [][NextPage]_vars

\* Every text over the character classes up to length n.
RECURSIVE TextsUpTo(_)
TextsUpTo(n) ==
    IF n = 0 THEN {<<>>}
    ELSE LET shorter == TextsUpTo(n - 1)
         IN  shorter \cup {Append(t, c) : t \in shorter, c \in Chars}

\* "Hola\x00\x01mundo" of verify_text_service.py, by character classes.
HolaMundo == Rep("a", 4) \o <<"CTL", "CTL">> \o Rep("a", 5)

CleanTexts == TextsUpTo(MaxCleanLen) \cup {HolaMundo}

CleanCalls == {[fn |-> "clean_text", text |-> t, orig |-> t, pass |-> 1] :
                  t \in CleanTexts}

InitClean ==
    /\ RestInit
    /\ AiInit
    /\ call \in CleanCalls
    /\ ret = NoRet

\* text_service.clean_text(text) runs to its end.
CallClean ==
    /\ call.fn = "clean_text"
    /\ ~ret.done
    /\ ret' = Returned(clean_text(call.text))
    /\ UNCHANGED <<call, jobVars, dbVars, searchVars, aiVars, apiVars>>

\* clean_text is called on what its first call returned.
CallCleanAgain ==
    /\ call.fn = "clean_text"
    /\ ret.done
    /\ call.pass = 1
    /\ call' = [call EXCEPT !.text = ret.value, !.pass = 2]
    /\ ret' = Returned(clean_text(ret.value))
    /\ UNCHANGED <<jobVars, dbVars, searchVars, aiVars, apiVars>>

NextClean ==
    \/ CallClean
    \/ CallCleanAgain

SpecClean == InitClean /\ [][NextClean]_vars

\* ------------------------------------------------------------------------
\* AIService._validate_and_sanitize_metadata and DocumentoMetadata
\* ------------------------------------------------------------------------

\* tema_principal.strip()[:200], resumen_corto.strip()[:500],
\* entity.strip()[:100], validated_entities[:10]
topic_cap == 200
summary_cap == 500
entity_cap == 100
max_entities == 10
min_entity_len == 2

\* allowed_categories of DocumentoMetadata.validate_tipo_documento
allowed_categories == {"Oficio", "Oficio Multiple", "Resolucion Directorial",
                       "Informe", "Solicitud", "Memorandum", "Acta", "Varios"}

\* s[:n]
Truncate(s, n) == IF Len(s) <= n THEN s ELSE SubSeq(s, 1, n)

\* An Optional[str] of the validated dictionary.
Absent == [present |-> FALSE, str |-> <<>>]
Present(str) == [present |-> TRUE, str |-> str]

\* JSON values of the field tipo_documento of a parsed response: a string,
\* null, no such key, a falsy value that is no string (0, false, []) and a
\* truthy one (7, ["Oficio"]).
CategoryValues ==
    {[kind |-> "str", name |-> n] :
        n \in {"Oficio", "Acta", "Varios", "Declaracion Jurada", "oficio", ""}}
    \cup {[kind |-> k, name |-> NULL] : k \in {"null", "missing", "zero", "other"}}

\* JSON values of a text field: a string, null, a truthy value that is no
\* string.
JsonText(str) == [kind |-> "str", str |-> str]
JsonNull == [kind |-> "null", str |-> <<>>]
JsonOther == [kind |-> "other", str |-> <<>>]

RECURSIVE StringsUpTo(_)
StringsUpTo(n) ==
    IF n = 0 THEN {<<>>}
    ELSE LET shorter == StringsUpTo(n - 1)
         IN  shorter \cup {Append(t, c) : t \in shorter, c \in {"a", "SP"}}

\* The strings the LLM answers for a field capped at cap characters: short
\* ones, and cap - 1 letters followed by a short ending.
TextValues(cap) ==
    {JsonText(t) : t \in StringsUpTo(MaxShortLen)}
    \cup {JsonText(Rep("a", cap - 1) \o t) : t \in StringsUpTo(MaxShortLen)}
    \cup {JsonNull, JsonOther}

\* "2024-1-5" is a date written without padding, "2024-13-45" matches the
\* pattern and is no date.
DateValues ==
    {[kind |-> "str", name |-> d] : d \in {"2024-01-15", "2024-1-5", "2024-13-45"}}
    \cup {[kind |-> "null", name |-> NULL]}

EntityValues ==
    {[kind |-> "null", items |-> <<>>],
     [kind |-> "list",
      items |-> <<JsonText(<<"a">>), JsonText(<<"SP", "a", "a", "SP">>),
                  JsonText(<<"SP", "SP">>), JsonOther>>]}

\* What json.loads gives for the text of the response: an object with the
\* five fields, or a value that is no object (a list).
Responses ==
    [shape : {"object"}, tipo_documento : CategoryValues,
     tema_principal : TextValues(topic_cap), fecha_documento : DateValues,
     entidades_clave : EntityValues, resumen_corto : TextValues(summary_cap)]
    \cup
    [shape : {"list"}, tipo_documento : {[kind |-> "missing", name |-> NULL]},
     tema_principal : {JsonNull}, fecha_documento : {[kind |-> "null", name |-> NULL]},
     entidades_clave : {[kind |-> "null", items |-> <<>>]},
     resumen_corto : {JsonNull}]

validate_categoryAsIs(category) ==
    IF category.kind = "str" /\ category.name # "" THEN category.name
    ELSE "Varios"

\* AIService.validate_category: `not category or category not in
\* self.ALLOWED_CATEGORIES` gives "Varios".
validate_category(category) ==
    IF \/ category.kind \in {"null", "missing", "zero"}
       \/ category.kind = "str" /\ category.name = ""
       \/ ~(category.kind = "str" /\ category.name \in ALLOWED_CATEGORIES)
    THEN "Varios"
    ELSE category.name

\* `if value and isinstance(value, str): value.strip()[:cap] else None`
sanitize_text(value, cap) ==
    IF value.kind = "str" /\ value.str # <<>>
    THEN Present(Truncate(Strip(value.str), cap))
    ELSE Absent

\* sanitize_text on each answer of the model, for the topic and for the
\* summary.
SanitizedTopic ==
    [value \in TextValues(topic_cap) |-> sanitize_text(value, topic_cap)]
SanitizedSummary ==
    [value \in TextValues(summary_cap) |-> sanitize_text(value, summary_cap)]

\* AIService._validate_date_format: the date in YYYY-MM-DD, or None.
validate_date_format(date_str) ==
    IF date_str.kind # "str" THEN NULL
    ELSE CASE date_str.name = "2024-01-15" -> "2024-01-15"
           [] date_str.name = "2024-1-5" -> "2024-01-05"
           [] OTHER -> NULL

\* AIService._validate_entities_list
validate_entities_list(entities) ==
    IF entities.kind # "list" \/ entities.items = <<>> THEN <<>>
    ELSE LET good == SelectSeq(entities.items,
                        LAMBDA e : /\ e.kind = "str"
                                   /\ Strip(e.str) # <<>>
                                   /\ Len(Truncate(Strip(e.str), entity_cap))
                                         >= min_entity_len)
             validated_entities ==
                 [i \in 1..Len(good) |-> Truncate(Strip(good[i].str), entity_cap)]
         IN  Truncate(validated_entities, max_entities)

\* AIService._validate_and_sanitize_metadata; an absent list is <<>>.
validate_and_sanitize_metadata(metadata_json) ==
    [tipo_documento  |-> validate_category(metadata_json.tipo_documento),
     tema_principal  |-> SanitizedTopic[metadata_json.tema_principal],
     fecha_documento |-> validate_date_format(metadata_json.fecha_documento),
     entidades_clave |-> validate_entities_list(metadata_json.entidades_clave),
     resumen_corto   |-> SanitizedSummary[metadata_json.resumen_corto]]

MetadataCalls ==
    {[fn |-> "extract_metadata", response |-> r, stage |-> 1] : r \in Responses}

InitMetadata ==
    /\ RestInit
    /\ AiInit
    /\ call \in MetadataCalls
    /\ ret = NoRet

\* extract_metadata from the parsed response on: metadata.get on a value
\* that is no object raises AttributeError, which the loop ends up raising.
CallExtractMetadata ==
    /\ call.fn = "extract_metadata"
    /\ ~ret.done
    /\ ret' = IF call.response.shape = "object"
              THEN Returned(validate_and_sanitize_metadata(call.response))
              ELSE Raised("AttributeError")
    /\ UNCHANGED <<call, jobVars, dbVars, searchVars, aiVars, apiVars>>

\* metadata = DocumentoMetadata(**metadata_dict): validate_tipo_documento
\* raises for a category that is neither None nor in allowed_categories.
\* The fields of the result are the ones the Documento is created with.
BuildDocumentoMetadata ==
    /\ call.fn = "extract_metadata"
    /\ call.stage = 1
    /\ ret.done
    /\ ret.error = NULL
    /\ call' = [call EXCEPT !.stage = 2]
    /\ ret' = IF ret.value.tipo_documento \in allowed_categories
              THEN ret
              ELSE Raised("ValidationError")
    /\ UNCHANGED <<jobVars, dbVars, searchVars, aiVars, apiVars>>

NextMetadata ==
    \/ CallExtractMetadata
    \/ BuildDocumentoMetadata

SpecMetadata == InitMetadata /\ [][NextMetadata]_vars

\* ------------------------------------------------------------------------
\* AIService: the calls of the provider and their retries
\* ------------------------------------------------------------------------

\* self.max_retries = 3; self.retry_delay = 2
ai_max_retries == 3
ai_retry_delay == 2

AiFunctions == {"extract_metadata", "generate_embedding",
                "generate_query_embedding"}

\* The exceptions one round of the loop can end with, besides the rate
\* limit (google_exceptions.ResourceExhausted): any other failure of the
\* provider, and for extract_metadata a response that cannot be parsed.
OtherFailures(fn) ==
    IF fn = "extract_metadata" THEN {"ServiceUnavailable", "JSONDecodeError"}
    ELSE {"ServiceUnavailable"}

\* What the method returns when the provider answers.
AiValues(fn) == IF fn = "extract_metadata" THEN LLMMetadata ELSE Emb

\* wait_time = self.retry_delay * (2 ** attempt)
wait_time(n) == ai_retry_delay * (2 ^ n)

\* `if attempt < self.max_retries - 1`: another round follows.
AnotherRound(n) == n < ai_max_retries - 1

InitProvider ==
    /\ RestInit
    /\ CallInit
    /\ aiFn \in AiFunctions
    /\ attempt = 0
    /\ answers = <<>>
    /\ slept = <<>>
    /\ aiRet = NoRet

\* One round of `for attempt in range(self.max_retries)` in which the
\* provider answers: the method returns.
ProviderAnswers ==
    /\ aiFn # NULL
    /\ ~aiRet.done
    /\ answers' = Append(answers, "ok")
    /\ \E v \in AiValues(aiFn) : aiRet' = Returned(v)
    /\ UNCHANGED <<aiFn, attempt, slept, jobVars, dbVars, searchVars, callVars, apiVars>>

\* One round in which the provider raises ResourceExhausted: sleep and go
\* round again, or raise.
ProviderRateLimited ==
    /\ aiFn # NULL
    /\ ~aiRet.done
    /\ answers' = Append(answers, "ResourceExhausted")
    /\ IF AnotherRound(attempt)
       THEN /\ slept' = Append(slept, wait_time(attempt))
            /\ attempt' = attempt + 1
            /\ UNCHANGED aiRet
       ELSE /\ aiRet' = Raised("ResourceExhausted")
            /\ UNCHANGED <<attempt, slept, apiVars>>
    /\ UNCHANGED <<aiFn, jobVars, dbVars, searchVars, callVars, apiVars>>

\* One round that ends with any other exception: sleep retry_delay and go
\* round again, or raise.
ProviderFails ==
    /\ aiFn # NULL
    /\ ~aiRet.done
    /\ \E exc \in OtherFailures(aiFn) :
          /\ answers' = Append(answers, exc)
          /\ IF AnotherRound(attempt)
             THEN /\ slept' = Append(slept, ai_retry_delay)
                  /\ attempt' = attempt + 1
                  /\ UNCHANGED aiRet
             ELSE /\ aiRet' = Raised(exc)
                  /\ UNCHANGED <<attempt, slept, apiVars>>
    /\ UNCHANGED <<aiFn, jobVars, dbVars, searchVars, callVars, apiVars>>

NextProvider ==
    \/ ProviderAnswers
    \/ ProviderRateLimited
    \/ ProviderFails

SpecProvider == InitProvider /\ [][NextProvider]_vars

\* ------------------------------------------------------------------------
\* Properties
\* ------------------------------------------------------------------------

FragsOf(d) == {f \in dbFrags : f.documento_id = d}
AuditOf(d) == {a \in dbAudit : a.documento_id = d}

\* C1: once the error handling of a failed attempt has finished, the store
\* holds no Fragment and no audit entry of that attempt; at most its Document
\* row, with status error, remains.
C1_FailedAttemptLeavesNoRows ==
    last.result = "fail" =>
        /\ FragsOf(last.doc) = {}
        /\ AuditOf(last.doc) = {}
        /\ last.doc \in DOMAIN dbDocs => dbDocs[last.doc].status = "error"

\* C2 as stated: a job whose every execution fails is executed at most 3
\* times in total.
C2_AtMostThreeExecutions == started <= 3

\* C2 as amended: a job whose every execution fails is executed at most
\* max_retries + 1 = 4 times (the first execution and three retries); a retry
\* is scheduled after each of the first three failures only, and the job is
\* definitively failed after the fourth, with no further execution.
C2_AtMostFourExecutions ==
    /\ started <= max_retries + 1
    /\ pc = "retry" => started <= max_retries /\ Len(delays) = started
    /\ pc = "failed" => started = max_retries + 1 /\ Len(delays) = max_retries

C2_Witness ==
    /\ pc = "failed"
    /\ started = 4
    /\ last.result = "fail"

\* C3: the countdowns scheduled before the successive retries of a job that
\* keeps failing are 60 s, 300 s and 900 s, in that order.
C3_DelaysAre60_300_900 ==
    \A i \in DOMAIN delays : i <= 3 => delays[i] = <<60, 300, 900>>[i]

\* C4: a completed Document is committed together with all its Fragments
\* (one per chunk, positions 0..n-1) and its CREATE audit entry, so no
\* committed state holds a completed Document without them; and when that
\* commit fails, none of the three is persisted.
C4_CompletedCommittedWhole ==
    /\ \A d \in DOMAIN dbDocs :
          dbDocs[d].status = "completed" =>
             /\ {f.posicion : f \in FragsOf(d)} = 0..(Len(Chunks) - 1)
             /\ Cardinality(FragsOf(d)) = Len(Chunks)
             /\ AuditCreate(d) \in dbAudit
    /\ last.result = "fail" /\ last.step = "commit" =>
          /\ last.doc \notin DOMAIN dbDocs
          /\ FragsOf(last.doc) = {}
          /\ AuditOf(last.doc) = {}

C4_Witness ==
    \E d \in DOMAIN dbDocs :
        /\ dbDocs[d].status = "completed"
        /\ Cardinality(FragsOf(d)) >= 2
        /\ AuditOf(d) # {}

\* C5: in every committed state, every completed Document has at least one
\* Fragment, whatever text passed the 10-character minimum check.
C5_CompletedHasFragment ==
    \A d \in DOMAIN dbDocs :
        dbDocs[d].status = "completed" => FragsOf(d) # {}

\* The distances of the rows of document d among the nearest rows.
RowDistances(d) ==
    {rows[i].similitud : i \in {j \in DOMAIN rows : rows[j].documento_id = d}}

Candidates == {rows[i].documento_id : i \in DOMAIN rows}

\* C6: the distance the search associates with a document, returned as its
\* relevance_score, is the minimum of the distances of its fragments among
\* the nearest rows.
C6_ScoreIsMinimumDistance ==
    sPc = "done" /\ response.code = 200 =>
        \A i \in DOMAIN response.results :
            response.results[i].relevance_score =
                Min(RowDistances(response.results[i].documento.id))

\* C7: the search returns exactly the candidate documents whose distance
\* (the minimum distance of section 4.7) is at most 1.0 and that pass the
\* filters, ascending by that distance; and nothing when none qualifies.
C7_ExactlyWithinThreshold ==
    sPc = "done" /\ response.code = 200 =>
        LET qualified ==
                {d \in Candidates :
                    /\ Min(RowDistances(d)) <= SIMILARITY_THRESHOLD
                    /\ d \in DOMAIN dbDocs
                    /\ dbDocs[d].status = "completed"
                    /\ MatchesFilters(dbDocs[d], request)}
        IN  /\ {ordered[i].documento_id : i \in DOMAIN ordered} = qualified
            /\ Len(ordered) = Cardinality(qualified)
            /\ response.total = Cardinality(qualified)
            /\ \A i, j \in DOMAIN ordered :
                  i < j => Min(RowDistances(ordered[i].documento_id))
                             <= Min(RowDistances(ordered[j].documento_id))
            /\ qualified = {} => response.results = <<>>

\* C8: whatever the interleaving with the running job, a search returns
\* only Documents that are committed with status completed: never a row
\* still in a worker's session, never one in status processing or error.
C8_OnlyCommittedCompleted ==
    /\ \A i \in DOMAIN ordered :
          /\ ordered[i].documento.status = "completed"
          /\ ordered[i].documento_id \in DOMAIN dbDocs
          /\ dbDocs[ordered[i].documento_id].status = "completed"
    /\ \A i \in DOMAIN response.results :
          /\ response.results[i].documento.status = "completed"
          /\ response.results[i].documento.id \in DOMAIN dbDocs
          /\ dbDocs[response.results[i].documento.id].status = "completed"

\* A search answered while an attempt holds an uncommitted Document and the
\* store holds an error Document with a fragment within the threshold.
C8_Witness ==
    /\ sPc = "done"
    /\ response.code = 200
    /\ pc = "embed"
    /\ documento_id # NoId
    /\ \E f \in dbFrags :
          /\ dbDocs[f.documento_id].status = "error"
          /\ CosineDistance(f.embedding, request.query) <= SIMILARITY_THRESHOLD

\* C9 as stated: after a job has definitively failed, at whatever step, a
\* Document row with status error and a non-empty error_message exists.
C9_FailedJobHasErrorDocument ==
    pc = "failed" =>
        \E d \in DOMAIN dbDocs :
            dbDocs[d].status = "error" /\ dbDocs[d].error_message # <<>>

\* C9 as amended: a failed attempt leaves a Document row, with status error
\* and a non-empty error_message, exactly when it failed after its row had
\* been created (while embedding the chunks or at the last progress update)
\* and the commit of the error handler succeeded; an attempt that fails
\* earlier, or whose flush or commit fails, leaves no Document row.
C9_ErrorRowIffCreated ==
    last.result = "fail" =>
        IF last.step \in {"embed", "finalize"} /\ last.committed
        THEN /\ last.doc \in DOMAIN dbDocs
             /\ dbDocs[last.doc].status = "error"
             /\ dbDocs[last.doc].error_message # <<>>
        ELSE /\ ~last.committed
             /\ last.doc \notin DOMAIN dbDocs
             /\ \A d \in DOMAIN dbDocs :
                   dbDocs[d].status = "error" => d < started

C9_Witness ==
    /\ pc = "failed"
    /\ last.step = "embed"
    /\ last.committed
    /\ dbDocs[last.doc].status = "error"

\* C10: after every attempt has ended, by returning the id or by raising
\* (a retry being scheduled or not), the temporary file is gone, provided
\* the removal itself did not fail.
C10_TempFileRemoved ==
    pc \in {"retry", "success", "failed"} /\ last.removeOk => ~tempFile

C10_Witness ==
    /\ pc = "retry"
    /\ started = 1
    /\ last.result = "fail"
    /\ last.removeOk
    /\ ~tempFile

\* C11: an attempt that fails because extract_text raised its error for an
\* unsupported content type ends the job: no retry is scheduled and the task
\* is never executed again.
C11_UnsupportedMimeIsTerminal ==
    /\ last.result = "fail"
    /\ last.step = "extract"
    /\ content_type \notin SupportedTypes
    => pc = "failed" /\ delays = <<>> /\ started = 1

\* The first n and the last n characters of c, and c without its first n.
FirstChars(c, n) == SubSeq(c, 1, IF n < Len(c) THEN n ELSE Len(c))
LastChars(c, n) == SubSeq(c, (IF n < Len(c) THEN Len(c) - n ELSE 0) + 1, Len(c))
DropChars(c, n) == IF n < Len(c) THEN SubSeq(c, n + 1, Len(c)) ELSE <<>>

\* The first chunk followed by every later chunk without its first overlap
\* characters.
RECURSIVE Rejoin(_, _)
Rejoin(chunks, overlap) ==
    IF chunks = <<>> THEN <<>>
    ELSE IF Len(chunks) = 1 THEN chunks[1]
    ELSE Rejoin(SubSeq(chunks, 1, Len(chunks) - 1), overlap)
            \o DropChars(chunks[Len(chunks)], overlap)

\* C12: for every text and every size > overlap, chunk_text returns chunks,
\* and the first chunk followed by each later chunk without its first
\* overlap characters is exactly the text.
C12_ChunksRebuildText ==
    call.fn = "chunk_text" /\ ret.done /\ call.chunk_size > call.overlap =>
        /\ ret.error = NULL
        /\ Rejoin(ret.value, call.overlap) = call.text

\* C13: for every text and every size > overlap, the last overlap
\* characters of each returned chunk are the first overlap characters of the
\* next one, unless that next one is the final chunk and is shorter than
\* overlap.
C13_ConsecutiveChunksOverlap ==
    /\ call.fn = "chunk_text"
    /\ ret.done
    /\ ret.error = NULL
    /\ call.chunk_size > call.overlap
    => \A i \in 1..(Len(ret.value) - 1) :
          \/ /\ i + 1 = Len(ret.value)
             /\ Len(ret.value[i + 1]) < call.overlap
          \/ /\ Len(ret.value[i]) >= call.overlap
             /\ Len(ret.value[i + 1]) >= call.overlap
             /\ LastChars(ret.value[i], call.overlap)
                   = FirstChars(ret.value[i + 1], call.overlap)

\* Four chunks of pairwise different characters with an overlap of two.
C13_Witness ==
    /\ call.fn = "chunk_text"
    /\ ret.done
    /\ ret.error = NULL
    /\ call.text = Ramp(6)
    /\ call.chunk_size = 3
    /\ call.overlap = 2
    /\ Len(ret.value) = 4

\* C14: chunk_text raises its ValueError exactly when the chunk_size passed
\* is at most the overlap passed, whatever the text (empty included) and
\* whatever the overlap (0 included), and returns chunks otherwise.
C14_ErrorIffSizeNotAboveOverlap ==
    call.fn = "chunk_text" /\ ret.done =>
        ((ret.error = "ValueError") <=> (call.chunk_size <= call.overlap))

\* C15: for every text and size > overlap, chunk_text returns no chunk for
\* the empty text, the text itself as the only chunk when it is no longer
\* than size, and otherwise chunks that start size - overlap characters
\* apart, each of length size except the last, which is no longer than size
\* and ends the text.
C15_ChunkLayout ==
    call.fn = "chunk_text" /\ ret.done /\ call.chunk_size > call.overlap =>
        /\ ret.error = NULL
        /\ LET chunks == ret.value
               text == call.text
               size == call.chunk_size
               step == call.chunk_size - call.overlap
               Start(k) == (k - 1) * step
           IN  IF text = <<>> THEN chunks = <<>>
               ELSE IF Len(text) <= size THEN chunks = <<text>>
               ELSE /\ Len(chunks) >= 2
                    /\ \A k \in DOMAIN chunks :
                          /\ Len(chunks[k]) <= size
                          /\ k < Len(chunks) => Len(chunks[k]) = size
                          /\ Start(k) + Len(chunks[k]) <= Len(text)
                          /\ chunks[k] = SubSeq(text, Start(k) + 1,
                                                Start(k) + Len(chunks[k]))
                    /\ Start(Len(chunks)) + Len(chunks[Len(chunks)])
                          = Len(text)

\* C16: clean_text(clean_text(x)) = clean_text(x) for every text x: the
\* second call returns its argument, which is what the first call returned.
C16_CleanIdempotent ==
    call.fn = "clean_text" /\ call.pass = 2 /\ ret.done =>
        /\ ret.error = NULL
        /\ ret.value = call.text

\* A second call on a non-empty result that differs from the original
\* text, which held control characters and blank lines.
C16_Witness ==
    /\ call.fn = "clean_text"
    /\ call.pass = 2
    /\ ret.done
    /\ call.orig = <<"a", "NL", "CTL", "NL">>
    /\ call.text = <<"a">>

\* C17: clean_text removes the control characters and puts nothing in
\* their place: a text of letters and control characters comes back as its
\* letters, joined ("Hola\x00\x01mundo" gives "Holamundo").
C17_ControlCharsRemoved ==
    /\ call.fn = "clean_text"
    /\ call.pass = 1
    /\ ret.done
    /\ \A i \in DOMAIN call.text : call.text[i] \in {"a", "CTL"}
    => ret.value = SelectSeq(call.text, LAMBDA c : c # "CTL")

\* C18: for every response that parses to an object, whatever its field
\* tipo_documento holds (a category off the list, null, nothing, a value
\* that is no string), extract_metadata returns, the category it returns is
\* in the allow-list, "Varios" standing for every value off the list, and
\* the category the pipeline then stores is in the list as well.
C18_CategoryInAllowList ==
    call.fn = "extract_metadata" /\ ret.done =>
        /\ call.response.shape = "object" => ret.error = NULL
        /\ ret.error = NULL =>
              /\ ret.value.tipo_documento \in ALLOWED_CATEGORIES
              /\ LET category == call.response.tipo_documento
                 IN  ret.value.tipo_documento =
                        IF category.kind = "str"
                              /\ category.name \in ALLOWED_CATEGORIES
                        THEN category.name
                        ELSE "Varios"

\* A category off the list has gone through both validations as "Varios".
C18_Witness ==
    /\ call.fn = "extract_metadata"
    /\ call.stage = 2
    /\ ret.done
    /\ ret.error = NULL
    /\ call.response.tipo_documento.kind = "str"
    /\ call.response.tipo_documento.name = "Declaracion Jurada"
    /\ ret.value.tipo_documento = "Varios"

\* An Optional[str] that is absent or a non-empty string of at most cap
\* characters with no whitespace at either end; absent when the input is
\* empty or holds whitespace only.
WellTrimmed(value, out, cap) ==
    /\ out.present =>
          /\ out.str # <<>>
          /\ Len(out.str) <= cap
          /\ ~IsSpace(out.str[1])
          /\ ~IsSpace(out.str[Len(out.str)])
    /\ value.kind = "str" /\ (\A i \in DOMAIN value.str : IsSpace(value.str[i]))
          => ~out.present

\* C19: the topic and the summary extract_metadata returns are absent or
\* non-empty, trimmed at both ends and at most 200 and 500 characters long;
\* an empty or whitespace-only input gives absent.
C19_TopicAndSummaryTrimmed ==
    call.fn = "extract_metadata" /\ ret.done /\ ret.error = NULL =>
        /\ WellTrimmed(call.response.tema_principal,
                       ret.value.tema_principal, topic_cap)
        /\ WellTrimmed(call.response.resumen_corto,
                       ret.value.resumen_corto, summary_cap)

\* C20: when the provider answers every call with the rate-limit error,
\* each of the three methods retries the call three times, sleeping 2 s,
\* 4 s and 8 s before the successive retries, and only then raises the
\* rate-limit error.
C20_ThreeRetries_2_4_8 ==
    /\ aiFn \in AiFunctions
    /\ aiRet.done
    /\ \A i \in DOMAIN answers : answers[i] = "ResourceExhausted"
    => /\ aiRet.error = "ResourceExhausted"
       /\ slept = <<2, 4, 8>>
       /\ Len(answers) = 4

\* C21: whatever state of the job the status endpoint is asked in (queued,
\* started, reporting progress, waiting for a retry, succeeded, failed), the
\* status it answers is one of pending, processing, completed, error, and a
\* progress it answers lies in 0..100.
C21_StatusAndProgressInRange ==
    polled # NoPoll =>
       /\ polled.status \in {"pending", "processing", "completed", "error"}
       /\ polled.progress # NoProgress => polled.progress \in 0..100

\* Every AuditLog object a session has flushed or committed.
Written == dbAudit \cup UNION {ePending[r] : r \in Requesters}

\* C22: every audit entry written has an action among CREATE, UPDATE and
\* DELETE; a CREATE entry has no old_values and has new_values, a DELETE
\* entry has no new_values and has old_values, an UPDATE entry has both.
C22_AuditEntryShape ==
    \A e \in Written :
       /\ e.action \in {"CREATE", "UPDATE", "DELETE"}
       /\ e.action = "CREATE" =>
             e.old_values = NoValues /\ e.new_values # NoValues
       /\ e.action = "DELETE" =>
             e.new_values = NoValues /\ e.old_values # NoValues
       /\ e.action = "UPDATE" =>
             e.old_values # NoValues /\ e.new_values # NoValues

\* An entry of each action has been written, the UPDATE one committed.
C22_Witness ==
    /\ \E e \in dbAudit : e.action = "CREATE"
    /\ \E e \in dbAudit : e.action = "UPDATE"
    /\ \E e \in Written : e.action = "DELETE"

RECURSIVE Concat(_, _)
\* The first n elements of a sequence of sequences, joined.
Concat(pages, n) == IF n = 0 THEN <<>> ELSE Concat(pages, n - 1) \o pages[n]

\* C23: total_pages is the ceiling of total / page_size (3 for 23 results
\* in pages of 10); page p holds exactly the items at ranks
\* (p - 1) * page_size .. p * page_size - 1 of the sorted list, so that the
\* pages 1..total_pages, one after the other, are the whole list with no
\* item twice; a page beyond total_pages is empty and reports the same total.
C23_Pagination ==
    (call.fn = "paginate" /\ ret.done) =>
       LET total == call.total
           ps == call.page_size
           out == ret.value
           first == (call.page - 1) * ps
           ranks == {k \in first..(first + ps - 1) : k < total}
           pages == [q \in 1..out.total_pages |->
                        paginate(Ramp(total), q, ps).results]
       IN  /\ out.total = total
           /\ out.total_pages * ps >= total
           /\ (out.total_pages - 1) * ps < total \/ out.total_pages = 0
           /\ (total = 23 /\ ps = 10) => out.total_pages = 3
           /\ Len(out.results) = Cardinality(ranks)
           /\ \A i \in 1..Len(out.results) : out.results[i] = first + i
           /\ Concat(pages, out.total_pages) = Ramp(total)
           /\ call.page > out.total_pages => out.results = <<>>

\* The third page of 23 results in pages of 10 has been computed.
C23_Witness ==
    /\ call.fn = "paginate"
    /\ ret.done
    /\ call.total = 23
    /\ call.page_size = 10
    /\ call.page = 3
    /\ ret.value.results = <<21, 22, 23>>

\* C24: when an attempt after the first one starts, the temporary input
\* file still exists, so the retried attempt can read it and run the whole
\* pipeline.
C24_RetryFindsTempFile ==
    (pc = "upload" /\ started > 1) => tempFile

\* C25: once a confirmed delete_documento has committed, the document is
\* gone and no fragment and no audit entry references it, the DELETE entry
\* of that transaction included; and in every committed state each fragment
\* and each audit entry references a document of the store.
C25_DeleteCascades ==
    /\ \A r \in Requesters :
          (eReq[r].op = "delete" /\ eResp[r] = 200) =>
             /\ eReq[r].confirm
             /\ eReq[r].documento_id \notin DOMAIN dbDocs
             /\ FragsOf(eReq[r].documento_id) = {}
             /\ AuditOf(eReq[r].documento_id) = {}
    /\ \A f \in dbFrags : f.documento_id \in DOMAIN dbDocs
    /\ \A e \in dbAudit : e.documento_id \in DOMAIN dbDocs

\* A completed document, which had fragments and a CREATE entry, has been
\* deleted after an update of it had committed its UPDATE entry.
C25_Witness ==
    \E r \in Requesters, o \in Requesters :
       /\ eReq[r].op = "delete"
       /\ eResp[r] = 200
       /\ eRow[r].status = "completed"
       /\ eReq[o].op = "update"
       /\ eReq[o].documento_id = eReq[r].documento_id
       /\ eResp[o] = 200

\* C26: the UPDATE entry an update commits has as old_values the metadata
\* of the document in the committed state just before that commit and as
\* new_values its metadata just after, also when update requests interleave.
C26_AuditBracketsCommit ==
    [][\A e \in dbAudit' \ dbAudit :
          e.action = "UPDATE" =>
             /\ e.old_values = ValuesOf(dbDocs[e.documento_id])
             /\ e.new_values = ValuesOf(dbDocs'[e.documento_id])]_vars

\* The UPDATE entries a step commits.
NewUpdates == {e \in dbAudit' \ dbAudit : e.action = "UPDATE"}

\* C27: update_documento persists the metadata change and its UPDATE entry
\* together or not at all.  A step that changes the committed metadata of a
\* document commits exactly one UPDATE entry, for that document; a step
\* that commits an UPDATE entry is the commit of the request that wrote it,
\* answered with 200, and commits that entry only; a request that fails
\* leaves the store as it was, and no entry of it is ever in the store.
C27_UpdateAndAuditTogether ==
    [][/\ \A d \in DOMAIN dbDocs \cap DOMAIN dbDocs' :
             ValuesOf(dbDocs'[d]) # ValuesOf(dbDocs[d]) =>
                /\ Cardinality(NewUpdates) = 1
                /\ \A e \in NewUpdates : e.documento_id = d
       /\ \A e \in NewUpdates :
             /\ NewUpdates = {e}
             /\ \E r \in Requesters :
                   /\ e.id = AuditId(r)
                   /\ ePc[r] = "flushed"
                   /\ eResp'[r] = 200
                   /\ dbDocs'[e.documento_id] =
                         FlushUpdate(dbDocs[e.documento_id], eRow[r],
                                     eReq[r].data)
       /\ \A r \in Requesters :
             (eReq'[r].op = "update" /\ eResp[r] = 0 /\ eResp'[r] # 200
              /\ eResp'[r] # 0) =>
                UNCHANGED dbVars
       /\ \A r \in Requesters :
             eResp[r] \in {404, 500} =>
                ~\E e \in dbAudit : e.id = AuditId(r)]_vars

\* One update has committed and its entry is in the store; another update
\* of a document that is still there has failed.
C27_Witness ==
    \E r \in Requesters, o \in Requesters :
       /\ eReq[r].op = "update"
       /\ eResp[r] = 200
       /\ \E e \in dbAudit : e.id = AuditId(r) /\ e.action = "UPDATE"
       /\ eReq[o].op = "update"
       /\ eResp[o] = 500
       /\ eReq[o].documento_id \in DOMAIN dbDocs

\* C28: the progress a job reports never goes below a value it reported
\* before, through the chunks of the embedding loop and through retried
\* attempts; it is strictly greater whenever the stage changes; and it ends
\* at 100 on completion.
C28_ProgressMonotonic ==
    [][/\ progress' >= progress
       /\ stage' # stage => progress' > progress
       /\ taskState' = "SUCCESS" =>
             /\ get_task_status(taskState', progress').progress = 100
             /\ progress' <= 100]_vars

\* C29: once the job is in a terminal state, every object an attempt of it
\* stored in the bucket is the minio_object_name of a committed Documento
\* row: no failed attempt leaves an object nothing refers to.
C29_NoUnreferencedObject ==
    pc \in {"success", "failed"} =>
       \A o \in objects :
          \E d \in DOMAIN dbDocs : dbDocs[d].minio_object_name = o

\* C30: a step of update_documento changes nothing but the category and
\* the date of its target document (the metadata fields of the model), and
\* adds audit entries; it leaves the status, the storage locator and the
\* other columns of the row, every other row, every fragment and the bucket
\* as they were.  It changes the row only if the document exists with
\* status completed; for a target that does not, it answers 404 and the
\* store is unchanged.
C30_UpdateFrame ==
    [][\A r \in Requesters :
          (eReq'[r].op = "update" /\ ePc'[r] # ePc[r]) =>
             LET d == eReq'[r].documento_id
             IN  /\ dbFrags' = dbFrags
                 /\ objects' = objects
                 /\ dbAudit \subseteq dbAudit'
                 /\ DOMAIN dbDocs' = DOMAIN dbDocs
                 /\ \A x \in DOMAIN dbDocs : x # d => dbDocs'[x] = dbDocs[x]
                 /\ (ePc[r] = "idle" /\ ~(/\ d \in DOMAIN dbDocs
                                           /\ dbDocs[d].status = "completed")) =>
                       /\ eResp'[r] = 404
                       /\ UNCHANGED dbVars
                 /\ d \in DOMAIN dbDocs =>
                       /\ [dbDocs'[d] EXCEPT
                             !.tipo_documento = dbDocs[d].tipo_documento,
                             !.fecha_documento = dbDocs[d].fecha_documento]
                          = dbDocs[d]
                       /\ dbDocs'[d] # dbDocs[d] =>
                             /\ dbDocs[d].status = "completed"
                             /\ eResp'[r] = 200]_vars

\* An update has changed the metadata of a completed document, and an
\* update of a document in error has been answered with 404.
C30_Witness ==
    \E r \in Requesters, o \in Requesters :
       /\ eReq[r].op = "update"
       /\ eResp[r] = 200
       /\ eReq[r].documento_id \in DOMAIN dbDocs
       /\ ValuesOf(dbDocs[eReq[r].documento_id]) # ValuesOf(eRow[r])
       /\ FragsOf(eReq[r].documento_id) # {}
       /\ eReq[o].op = "update"
       /\ eResp[o] = 404
       /\ eReq[o].documento_id \in DOMAIN dbDocs
       /\ dbDocs[eReq[o].documento_id].status = "error"

====
